---- MODULE Spec2Model ----
(***************************************************************************)
(* The LLM advisor worker of SymbolicDet: llama_main (the dispatcher loop  *)
(* over the incoming queue) and process_llm_response (the bounded retry    *)
(* loop around the model backend), src/src/chat_llm.py.                    *)
(*                                                                         *)
(* Python lists are mutable objects reached through references, so the     *)
(* two conversation lists init_dialogs and dialogs are references into a   *)
(* heap of list objects; an append mutates the object, an assignment       *)
(* rebinds the reference.                                                  *)
(***************************************************************************)
EXTENDS Integers, Sequences, FiniteSets, TLC

\* ------------------------------------------------------------------ bounds
MaxSent == 3        \* envelopes the driver puts on the incoming queue
MaxUpdates == 1     \* of which EVOLUTION_UPDATE envelopes
MaxBudget == 3      \* largest max_retries a direct caller passes
MaxConfigUpdates == 2   \* calls of SRConfig.update made on one configuration

\* ------------------------------------------------------- program constants
DefaultMaxRetries == 3      \* process_llm_response(..., max_retries=3)
NumRefs == 3                \* list objects alive at once: init_dialogs, dialogs, one being built

VARIABLES
    queue_recv,     \* incoming channel (driver -> worker), FIFO
    queue_snd,      \* outgoing channel (worker -> driver), FIFO
    heap,           \* list objects: reference -> sequence of turns
    init_dialogs,   \* reference held by llama_main.init_dialogs
    dialogs,        \* reference held by llama_main.dialogs / process_llm_response.dialogs
    out_f,          \* writes made to output.txt, in order
    pc,             \* control point of the worker
    msg,            \* llama_main.msg, the envelope last decoded
    retries,        \* process_llm_response.retries
    max_retries,    \* process_llm_response.max_retries
    error_msg,      \* process_llm_response.error_msg
    ret,            \* value process_llm_response returned last
    calls,          \* model invocations started since msg was decoded
    emitted,        \* envelopes put on queue_snd since msg was decoded
    sent,           \* envelopes the driver has put on queue_recv
    context,        \* messages argument of the outstanding create() call, <<>> when none
    config,         \* an SRConfig object: per configuration object, its attributes
    update_call     \* the SRConfig.update calls made: how many, and the last one's
                    \* key, value and the exception it raised ("" when none)

vars == <<queue_recv, queue_snd, heap, init_dialogs, dialogs, out_f, pc, msg,
          retries, max_retries, error_msg, ret, calls, emitted, sent, context, config, update_call>>

\* ------------------------------------------------------------ Python values
\* A parsed payload: a dict, given by its keys and the list under 'suggestions'.
\* The responses modelled all denote dicts.
PyDict(ks, suggs) == [tag |-> "dict", keys |-> ks, suggestions |-> suggs]
PyNone == [tag |-> "none", keys |-> {}, suggestions |-> <<>>]
\* An element of 'suggestions': a dict with the given keys and the string
\* under 'expression', or a string that contains the given words.
ElemExpr(ks, e) == [tag |-> "dict", keys |-> ks, expression |-> e]
ElemDict(ks) == ElemExpr(ks, IF "expression" \in ks THEN "gt(x0,x1)" ELSE "")
ElemStr(ws) == [tag |-> "str", keys |-> ws, expression |-> ""]

\* Python's `k in x` for a dict (key lookup) and a str (substring test).
Contains(x, k) == k \in x.keys

\* resp_format, the canonical schema example
resp_format ==
    PyDict({"suggestions", "anomaly_score", "reason"}, <<ElemDict({"expression", "reason"})>>)

\* ---------------------------------------------------------- model responses
\* A raw completion: its syntax class, whether it carries surrounding
\* whitespace, the value json.loads gives for it and the value
\* ast.literal_eval gives for it (PyNone where that parser rejects it), and
\* for a text ast.literal_eval rejects the class and the message of the
\* exception it raises on the stripped text.
TextOf(syn, padded, v, l, x, w) ==
    [syntax |-> syn, pad |-> padded, value |-> v, literal |-> l, exc |-> x, why |-> w]
Text(syn, padded, v, l) == TextOf(syn, padded, v, l, "", "")
NoText == Text("none", FALSE, PyNone, PyNone)
\* A text neither parser accepts
Rejected(padded, x, w) == TextOf("garbage", padded, PyNone, PyNone, x, w)
\* A JSON text whose strings read the same as Python literals
Json(padded, v) == Text("json", padded, v, v)

FullBatch == PyDict({"suggestions", "anomaly_score", "reason"}, <<ElemDict({"expression", "reason"})>>)
T_json_ok == Json(TRUE, FullBatch)
T_py_ok == Text("pyliteral", FALSE, PyNone, FullBatch)
\* Prose around an expression; whitespace only; a dict display with a list
\* as key, which ast.literal_eval parses and then fails to build
T_garbage == Rejected(TRUE, "SyntaxError", "invalid syntax (<unknown>, line 1)")
T_blank == Rejected(TRUE, "SyntaxError", "invalid syntax (<unknown>, line 0)")
T_unhashable == Rejected(FALSE, "TypeError", "unhashable type: 'list'")
T_no_suggestions == Json(FALSE, PyDict({"anomaly_score", "reason"}, <<>>))
T_no_reason == Json(FALSE, PyDict({"suggestions", "anomaly_score", "reason"}, <<ElemDict({"expression"})>>))
T_bare == Json(FALSE, PyDict({"suggestions"}, <<ElemDict({"expression", "reason"})>>))
T_str_elem == Json(FALSE, PyDict({"suggestions", "anomaly_score", "reason"}, <<ElemStr({"expression", "reason"})>>))
\* A JSON text with the escape \/ in a string: json.loads reads it as "/",
\* ast.literal_eval keeps the backslash.
T_escaped ==
    Text("json", FALSE,
         PyDict({"suggestions", "anomaly_score", "reason"}, <<ElemExpr({"expression", "reason"}, "div(x0,x1) # a/b")>>),
         PyDict({"suggestions", "anomaly_score", "reason"}, <<ElemExpr({"expression", "reason"}, "div(x0,x1) # a\\/b")>>))

Texts ==
    {T_json_ok, T_py_ok, T_garbage, T_blank, T_unhashable, T_no_suggestions, T_no_reason,
     T_bare, T_str_elem, T_escaped}

\* The exceptions of a backend call by the handler that catches them:
\* "ValueError" is ValueError or a subclass of it (json.JSONDecodeError,
\* UnicodeDecodeError), "Exception" any other subclass of Exception.
\* KeyboardInterrupt and SystemExit are no outcomes of the backend.
ExceptionClasses == {"ValueError", "Exception"}

\* What one call of llm_client.chat.completions.create does: raise, or return a text.
BackendOutcomes ==
    {[raises |-> TRUE, exc |-> x, text |-> NoText] : x \in ExceptionClasses}
        \cup {[raises |-> FALSE, exc |-> "", text |-> t] : t \in Texts}

\* The backend the worker as a whole is run against: one outcome of each
\* kind an attempt distinguishes (the call raises; the response is accepted;
\* it does not parse; it parses and fails the schema check).
WorkerOutcomes ==
    {o \in BackendOutcomes : o.exc = "Exception" \/ o.text \in {T_json_ok, T_garbage, T_no_reason}}

\* str.strip()
Strip(t) == [t EXCEPT !.pad = FALSE]

\* json.loads: accepts JSON only
JsonLoadsOk(t) == t.syntax = "json"
\* ast.literal_eval: accepts Python literals (the JSON texts above are Python literals too)
LiteralEvalOk(t) == t.syntax \in {"json", "pyliteral"}

\* ---------------------------------------------------------------- messages
\* error_msg: f"{class}: {message}" and, for the ValueError of line 161,
\* f"{class}: {message}: {detail}"
ErrorText(c, m, d) == [class |-> c, message |-> m, detail |-> d]
FormatError(m, d) == ErrorText("Response format error", m, d)
UnknownError(m) == ErrorText("Unknown error", m, "")

\* why is str() of the exception ast.literal_eval raised
E_parse(why) == FormatError("Cannot parse response format", why)
E_no_suggestions == FormatError("Response missing 'suggestions' field", "")
E_fields == FormatError("Suggestion missing required fields 'expression' or 'reason'", "")
\* A backend call that raises, its message being "backend failure": the
\* first handler takes a ValueError, the second any other Exception
E_call(x) ==
    IF x = "ValueError" THEN FormatError("backend failure", "")
    ELSE UnknownError("backend failure")
NoError == ErrorText("", "", "")

\* ------------------------------------------------------------- conversation
\* The content of a turn: which template produced it and what was put in it.
Content(k, ls, ops, top, prev, t, e) ==
    [kind |-> k, labels |-> ls, operators |-> ops, top |-> top, prev |-> prev,
     text |-> t, error |-> e, format |-> resp_format]
Turn(r, c) == [role |-> r, content |-> c]

\* PromptTemplates.create_system_prompt
create_system_prompt(labels, operators) ==
    Content("SYSTEM", labels, operators, <<>>, <<>>, NoText, NoError)

\* A Python float: the multiple of 10^-5 nearest to it, and the side of that
\* decimal on which the binary value lies (1 above, -1 below, 0 when the
\* decimal is the binary value).
Float(u, s) == [units |-> u, side |-> s]

\* f"{x:.4f}": the sign of the float, and its magnitude rounded to the
\* nearest multiple of 10^-4, a tie of the binary value going to the even one
Round4(f) ==
    LET m == IF f.units < 0 THEN -f.units ELSE f.units
        ms == IF f.units < 0 THEN -f.side
              ELSE IF f.units = 0 /\ f.side < 0 THEN -f.side
              ELSE f.side
        q == m \div 10
        r == m % 10
        up == r > 5 \/ (r = 5 /\ (ms > 0 \/ (ms = 0 /\ q % 2 = 1)))
    IN [sign |-> IF f.units < 0 \/ (f.units = 0 /\ f.side < 0) THEN "-" ELSE "",
        digits |-> IF up THEN q + 1 ELSE q]

\* PromptTemplates.format_top_individuals
format_top_individuals(individuals) ==
    [i \in 1..Len(individuals) |->
        [index |-> (i - 1) + 1,
         expression |-> individuals[i].expression,
         fitness |-> Round4(individuals[i].fitness)]]

\* The keys PromptTemplates.format_previous_results reads of one entry:
\* 'status' first, then those of the branch taken
KeysRead(sugg) ==
    IF "status" \notin sugg.keys THEN {"status"}
    ELSE IF sugg.status = "success" THEN {"status", "expression", "fitness", "reason"}
    ELSE {"status", "expression", "error", "reason"}

\* PromptTemplates.format_previous_results raises KeyError: the dict has no
\* 'suggestions', or an entry lacks a key that is read of it.
format_previous_results_raises(suggestions) ==
    \/ "suggestions" \notin suggestions.keys
    \/ \E i \in 1..Len(suggestions.suggestions) :
          ~(KeysRead(suggestions.suggestions[i]) \subseteq suggestions.suggestions[i].keys)

\* PromptTemplates.format_previous_results
format_previous_results(suggestions) ==
    [i \in 1..Len(suggestions.suggestions) |->
        LET sugg == suggestions.suggestions[i]
        IN IF sugg.status = "success"
           THEN [expression |-> sugg.expression, label |-> "Actual Fitness",
                 fitness |-> Round4(sugg.fitness), error |-> "",
                 reason |-> sugg.reason]
           ELSE [expression |-> sugg.expression, label |-> "Evaluation Failed",
                 fitness |-> Round4(Float(0, 0)), error |-> sugg.error,
                 reason |-> sugg.reason]]

\* payload.get("previous_suggestions", None)
PreviousSuggestions(payload) ==
    IF "previous_suggestions" \in payload.keys THEN payload.previous_suggestions ELSE PyNone

\* The round prompt built by the EVOLUTION_UPDATE branch, schema suffix
\* included: the first-round template when previous_suggestions is None
RoundPrompt(payload) ==
    IF PreviousSuggestions(payload).tag = "none"
    THEN Content("FIRST_ROUND", <<>>, <<>>,
                 format_top_individuals(payload.top_individuals), <<>>, NoText, NoError)
    ELSE Content("SUBSEQUENT_ROUND", <<>>, <<>>,
                 format_top_individuals(payload.top_individuals),
                 format_previous_results(PreviousSuggestions(payload)), NoText, NoError)

\* PromptTemplates.ERROR_FEEDBACK.format(format=..., error=...)
ErrorFeedback(e) == Content("ERROR_FEEDBACK", <<>>, <<>>, <<>>, <<>>, NoText, e)

AssistantTurn(t) == Turn("assistant", Content("RESPONSE", <<>>, <<>>, <<>>, <<>>, t, NoError))

\* str.capitalize() on a role
Capitalize(r) ==
    CASE r = "system" -> "System"
      [] r = "user" -> "User"
      [] r = "assistant" -> "Assistant"
      [] OTHER -> r

\* ---------------------------------------------------------------- envelopes
None == -1      \* Python's None where the model holds a number

\* An envelope payload: the keys it has, and their values.
Payload(ks, ls, ops, cmd, top, prev, th, tr, te) ==
    [keys |-> ks, labels |-> ls, operators |-> ops, command |-> cmd,
     top_individuals |-> top, previous_suggestions |-> prev,
     threshold |-> th, train_size |-> tr, test_size |-> te]
EmptyPayload == Payload({}, <<>>, <<>>, "", <<>>, PyNone, None, None, None)

\* Message(msg_type, payload); type "BYTES" stands for data that
\* Message.deserialize rejects.
Message(t, p) == [type |-> t, payload |-> p]
NoMsg == Message("NONE", EmptyPayload)

\* dict.get(key, default)
Get(payload, key, value, default) == IF key \in payload.keys THEN value ELSE default

Individual(e, f) == [expression |-> e, fitness |-> f]
\* An entry of previous_suggestions['suggestions'] with the keys it has.
RoundOutcome(ks, e, st, f, err, r) ==
    [keys |-> ks, expression |-> e, status |-> st, fitness |-> f, error |-> err, reason |-> r]

InitMsgs ==
    {Message("INIT", [EmptyPayload EXCEPT !.keys = {"labels", "operators"},
                                          !.labels = ls, !.operators = <<"gt", "and_">>])
        : ls \in {<<"x0">>, <<"x0", "x1">>}}

CommandMsgs ==
    {Message("COMMAND", [EmptyPayload EXCEPT !.keys = {"command"}, !.command = c])
        : c \in {"exit", "pause"}}
    \cup {Message("COMMAND", EmptyPayload)}

Ok_success == RoundOutcome({"expression", "status", "fitness", "reason"},
                           "gt(x0,x1)", "success", Float(81234, -1), "", "simpler")
Ok_fail == RoundOutcome({"expression", "status", "error", "reason"},
                        "gt(x0,", "fail", Float(0, 0), "syntax", "shorter")
No_fitness == RoundOutcome({"expression", "status", "reason"},
                           "gt(x0,x1)", "success", Float(0, 0), "", "simpler")
No_error == RoundOutcome({"expression", "status", "reason"},
                         "gt(x0,", "fail", Float(0, 0), "", "shorter")

EvolutionPayloads ==
    {[EmptyPayload EXCEPT !.keys = {"top_individuals"}],
     [EmptyPayload EXCEPT !.keys = {"top_individuals", "previous_suggestions"}],
     [EmptyPayload EXCEPT !.keys = {"top_individuals", "previous_suggestions"},
                          !.top_individuals = <<Individual("or_(x0,x1)", Float(91236, -1))>>,
                          !.previous_suggestions = PyDict({"suggestions"}, <<Ok_success, Ok_fail>>)],
     [EmptyPayload EXCEPT !.keys = {"top_individuals", "previous_suggestions"},
                          !.top_individuals = <<Individual("or_(x0,x1)", Float(91236, -1))>>,
                          !.previous_suggestions = PyDict({"suggestions"}, <<Ok_fail, No_fitness>>)],
     [EmptyPayload EXCEPT !.keys = {"top_individuals", "previous_suggestions"},
                          !.top_individuals = <<Individual("or_(x0,x1)", Float(91236, -1))>>,
                          !.previous_suggestions = PyDict({"suggestions"}, <<No_error>>)]}

EvolutionMsgs == {Message("EVOLUTION_UPDATE", p) : p \in EvolutionPayloads}

ThresholdMsgs ==
    {Message("THRESHOLD_START",
             [EmptyPayload EXCEPT !.keys = {"threshold", "train_size", "test_size"},
                                  !.threshold = 5, !.train_size = 80, !.test_size = 20])}

\* Kinds the dispatcher has no branch for, and bytes that do not decode.
OtherMsgs == {Message("SUGGESTION", EmptyPayload), Message("BYTES", EmptyPayload)}

Inbound == InitMsgs \cup CommandMsgs \cup EvolutionMsgs \cup ThresholdMsgs \cup OtherMsgs

\* Envelopes the worker puts on queue_snd.
Outgoing(t, p, e, n) == [type |-> t, payload |-> p, error |-> e, retries |-> n]
SuggestionMsg(p) == Outgoing("SUGGESTION", p, NoError, 0)
ErrorMsg(e, n) == Outgoing("ERROR", PyNone, e, n)

\* Writes to output.txt
Written(k, r, c, i) == [kind |-> k, role |-> r, content |-> c, info |-> i]
NoContent == Content("", <<>>, <<>>, <<>>, <<>>, NoText, NoError)
EndedLine == Written("ended", "", NoContent, <<>>)
InfoLine(th, tr, te) == Written("info", "", NoContent, <<th, tr, te>>)
TurnLine(t) == Written("turn", Capitalize(t.role), t.content, <<>>)
SeparatorLine == Written("separator", "", NoContent, <<>>)

\* The turns written last to first
RECURSIVE TranscriptReversed(_)
TranscriptReversed(ts) ==
    IF ts = <<>> THEN <<>>
    ELSE TranscriptReversed(Tail(ts)) \o <<TurnLine(Head(ts)), SeparatorLine>>

\* The two writes made for each turn of a list, in list order.
RECURSIVE Transcript(_)
Transcript(ts) ==
    IF ts = <<>> THEN <<>>
    ELSE <<TurnLine(Head(ts)), SeparatorLine>> \o Transcript(Tail(ts))

\* --------------------------------------------------------------------- heap
Refs == 1..NumRefs

\* A list object not referenced by anyone: what `[]` or a copy allocates.
NewRef(live) == CHOOSE r \in Refs \ live : \A q \in Refs \ live : r <= q

\* Unreferenced list objects are reclaimed.
Collect(h, live) == [r \in Refs |-> IF r \in live THEN h[r] ELSE <<>>]

\* The copy is added to what the live list holds instead of replacing it
DeepCopyOntoHistory(ts) == heap[dialogs] \o [i \in 1..Len(ts) |-> Turn(ts[i].role, ts[i].content)]

\* copy.deepcopy of a list of turns: an equal value in a new object
DeepCopy(ts) == [i \in 1..Len(ts) |-> Turn(ts[i].role, ts[i].content)]

\* The conversation state of the spec
initPrefix == heap[init_dialogs]
turns == heap[dialogs]

\* ------------------------------------------------------- response validation
Failed(e) == [ok |-> FALSE, payload |-> PyNone, error |-> e]
Passed(p) == [ok |-> TRUE, payload |-> p, error |-> NoError]

\* ast.literal_eval tried first, json.loads only when it raised
ParseResponsePermissiveFirst(t) ==
    IF LiteralEvalOk(t) THEN Passed(t.literal)
    ELSE IF JsonLoadsOk(t) THEN Passed(t.value)
    ELSE IF t.exc \in {"ValueError", "SyntaxError"} THEN Failed(E_parse(t.why))
    ELSE Failed(UnknownError(t.why))

\* json.loads, then ast.literal_eval when json.loads raised JSONDecodeError
ParseResponse(t) ==
    IF JsonLoadsOk(t) THEN Passed(t.value)
    ELSE IF LiteralEvalOk(t) THEN Passed(t.literal)
    ELSE IF t.exc \in {"ValueError", "SyntaxError"} THEN Failed(E_parse(t.why))
    ELSE Failed(UnknownError(t.why))

\* The checks made on the parsed payload before it is sent
CheckPayload(p) ==
    IF ~Contains(p, "suggestions") THEN Failed(E_no_suggestions)
    ELSE IF \E i \in 1..Len(p.suggestions) :
                ~Contains(p.suggestions[i], "expression") \/ ~Contains(p.suggestions[i], "reason")
         THEN Failed(E_fields)
    ELSE Passed(p)

\* Parsing and validation of one (stripped) model response
Validate(t) ==
    IF ParseResponse(t).ok THEN CheckPayload(ParseResponse(t).payload) ELSE ParseResponse(t)

\* ------------------------------------------------------ process_llm_response
\* Where control goes when process_llm_response returns: back into the loop
\* of llama_main, or to a caller that invoked it directly.
ReturnTo == IF msg = NoMsg THEN "returned" ELSE "poll"

\* An assistant turn is appended for every attempt, also when the invocation raised
RecordedAlways(ds, o) == Append(ds, AssistantTurn(Strip(o.text)))

\* The response is recorded only after it has passed validation
RecordedWhenValid(ds, o) ==
    IF o.raises \/ ~Validate(Strip(o.text)).ok THEN ds
    ELSE Append(ds, AssistantTurn(Strip(o.text)))

\* The response replaces the list instead of being appended to it
RecordedOverwriting(ds, o) == IF o.raises THEN ds ELSE <<AssistantTurn(Strip(o.text))>>

\* The dialog list after the try block of one attempt: the stripped response
\* is appended once the backend has returned it.
Recorded(ds, o) == IF o.raises THEN ds ELSE Append(ds, AssistantTurn(Strip(o.text)))

\* The outcome of the try block of one attempt
Attempt(o) == IF o.raises THEN Failed(E_call(o.exc)) ELSE Validate(Strip(o.text))

\* Feedback is appended after every failed attempt, the last one included
WithFeedbackAlways(ds, e, n, budget) == Append(ds, Turn("user", ErrorFeedback(e)))

\* The dialog list after the `if retries < max_retries` that follows a failed
\* attempt; n is the incremented retry count.
WithFeedback(ds, e, n, budget) ==
    IF n < budget THEN Append(ds, Turn("user", ErrorFeedback(e))) ELSE ds

\* The ERROR envelope reports the retry count before the increment
PutOnFailureStale(e, n, budget) == IF n < budget THEN <<>> ELSE <<ErrorMsg(e, n - 1)>>

\* What a failed attempt puts on queue_snd; n is the incremented retry count.
PutOnFailure(e, n, budget) == IF n < budget THEN <<>> ELSE <<ErrorMsg(e, n)>>

\* What a successful attempt puts on queue_snd
PutOnSuccess(p) == <<SuggestionMsg(p)>>

\* No `return True`: the loop goes on after the SUGGESTION was put
AfterSuccessContinue == "loop"

\* Control point after a successful attempt
AfterSuccess == ReturnTo

\* The failed attempt is not counted
CountedNever(n) == n

\* `retries += 1` in both exception handlers
Counted(n) == n + 1

\* Only the newest turn is handed to the backend
MessagesLastTurn(ds) == SubSeq(ds, Len(ds), Len(ds))

\* `messages=dialogs`: the backend is handed the dialog list itself
Messages(ds) == ds

\* The test of `while retries < max_retries`; passing it starts a model invocation.
LoopHead ==
    /\ pc = "loop"
    /\ IF retries < max_retries
       THEN /\ pc' = "await"
            /\ calls' = calls + 1
            /\ context' = Messages(turns)
            /\ ret' = ret
       ELSE /\ pc' = ReturnTo
            /\ calls' = calls
            /\ context' = context
            /\ ret' = "None"
    /\ UNCHANGED <<queue_recv, queue_snd, heap, init_dialogs, dialogs, out_f, msg,
                   retries, max_retries, error_msg, emitted, sent, config, update_call>>

\* The model invocation ends with outcome o; the rest of the loop body runs.
Respond(o) ==
    /\ pc = "await"
    /\ LET ds == Recorded(turns, o)
           a == Attempt(o)
           n == Counted(retries)
       IN IF a.ok
          THEN /\ heap' = [heap EXCEPT ![dialogs] = ds]
               /\ queue_snd' = queue_snd \o PutOnSuccess(a.payload)
               /\ emitted' = emitted + Len(PutOnSuccess(a.payload))
               /\ ret' = "True"
               /\ pc' = AfterSuccess
               /\ UNCHANGED <<retries, error_msg>>
          ELSE /\ error_msg' = a.error
               /\ retries' = n
               /\ heap' = [heap EXCEPT ![dialogs] = WithFeedback(ds, a.error, n, max_retries)]
               /\ queue_snd' = queue_snd \o PutOnFailure(a.error, n, max_retries)
               /\ emitted' = emitted + Len(PutOnFailure(a.error, n, max_retries))
               /\ IF n < max_retries
                  THEN pc' = "loop" /\ ret' = ret
                  ELSE pc' = ReturnTo /\ ret' = "False"
    /\ context' = <<>>
    /\ UNCHANGED <<queue_recv, init_dialogs, dialogs, out_f, msg, max_retries, calls, sent,
                   config, update_call>>

\* ----------------------------------------------------------------- llama_main
\* The queue is read whenever it holds an envelope, also during the retry loop
PollingAnytime == pc \in {"poll", "loop", "await"} /\ queue_recv # <<>>

\* queue_recv.get returns an envelope: only at the top of the loop of llama_main
Polling == pc = "poll" /\ queue_recv # <<>>

\* queue_recv.get(timeout=1.0) raises queue.Empty: poll again
PollTimeout ==
    /\ pc = "poll"
    /\ queue_recv = <<>>
    /\ UNCHANGED vars

\* No handler around Message.deserialize: the exception leaves llama_main
OnDecodeErrorRaise == "crashed"

\* `except Exception as e: ... continue`: back to the top of the loop
OnDecodeError == "poll"

\* Message.deserialize raises: the data is dropped
DecodeFail ==
    /\ Polling
    /\ Head(queue_recv).type = "BYTES"
    /\ queue_recv' = Tail(queue_recv)
    /\ pc' = OnDecodeError
    /\ UNCHANGED <<queue_snd, heap, init_dialogs, dialogs, out_f, msg,
                   retries, max_retries, error_msg, ret, calls, emitted, sent, context, config, update_call>>

HandleInit ==
    /\ Polling
    /\ Head(queue_recv).type = "INIT"
    /\ queue_recv' = Tail(queue_recv)
    /\ msg' = Head(queue_recv)
    /\ LET labels == Get(msg'.payload, "labels", msg'.payload.labels, <<>>)
           operators == Get(msg'.payload, "operators", msg'.payload.operators, <<>>)
           init_dialogs_setting == NewRef({init_dialogs, dialogs})
       IN /\ init_dialogs' = init_dialogs_setting
          /\ heap' = Collect([heap EXCEPT ![init_dialogs_setting] =
                                 <<Turn("system", create_system_prompt(labels, operators))>>],
                             {init_dialogs_setting, dialogs})
    /\ calls' = 0 /\ emitted' = 0
    /\ UNCHANGED <<queue_snd, dialogs, out_f, pc, retries, max_retries, error_msg, ret, sent, context, config, update_call>>

\* Every command that is present ends the conversation
IsExitAnyCommand(command) == command # ""

\* `if command == "exit":`
IsExit(command) == command = "exit"

\* The closing line alone, the loop over dialogs left out
ExitWritesWithoutTurns(ts) == <<EndedLine>>

\* What the exit command writes to output.txt: the closing line in its
\* branch, then, after the loop, the blocks of dialogs
ExitWrites(ts) == <<EndedLine>> \o Transcript(ts)

HandleCommand ==
    /\ Polling
    /\ Head(queue_recv).type = "COMMAND"
    /\ queue_recv' = Tail(queue_recv)
    /\ msg' = Head(queue_recv)
    /\ IF IsExit(Get(msg'.payload, "command", msg'.payload.command, ""))
       THEN /\ out_f' = out_f \o ExitWrites(turns)
            /\ pc' = "done"
       ELSE UNCHANGED <<out_f, pc>>
    /\ calls' = 0 /\ emitted' = 0
    /\ UNCHANGED <<queue_snd, heap, init_dialogs, dialogs, retries, max_retries,
                   error_msg, ret, sent, context, config, update_call>>

HandleEvolutionUpdate ==
    /\ Polling
    /\ Head(queue_recv).type = "EVOLUTION_UPDATE"
    /\ queue_recv' = Tail(queue_recv)
    /\ msg' = Head(queue_recv)
    /\ calls' = 0 /\ emitted' = 0
    /\ IF /\ PreviousSuggestions(msg'.payload).tag # "none"
          /\ format_previous_results_raises(PreviousSuggestions(msg'.payload))
       THEN \* KeyError leaves llama_main
            /\ pc' = "crashed"
            /\ UNCHANGED <<heap, retries, max_retries, error_msg>>
       ELSE /\ heap' = [heap EXCEPT ![dialogs] = Append(turns, Turn("user", RoundPrompt(msg'.payload)))]
            /\ retries' = 0
            /\ max_retries' = DefaultMaxRetries
            /\ error_msg' = NoError
            /\ pc' = "loop"
    /\ UNCHANGED <<queue_snd, init_dialogs, dialogs, out_f, ret, sent, context, config, update_call>>

\* `dialogs = init_dialogs`: no copy, both names hold one list object
CopyTargetAliased(src, live) == src

\* The list object `dialogs` is bound to by the THRESHOLD_START branch:
\* copy.deepcopy allocates a new one
CopyTarget(src, live) == NewRef(live)

HandleThresholdStart ==
    /\ Polling
    /\ Head(queue_recv).type = "THRESHOLD_START"
    /\ queue_recv' = Tail(queue_recv)
    /\ msg' = Head(queue_recv)
    /\ LET threshold == Get(msg'.payload, "threshold", msg'.payload.threshold, None)
           train_size == Get(msg'.payload, "train_size", msg'.payload.train_size, None)
           test_size == Get(msg'.payload, "test_size", msg'.payload.test_size, None)
           copied == CopyTarget(init_dialogs, {init_dialogs, dialogs})
       IN /\ dialogs' = copied
          /\ heap' = Collect([heap EXCEPT ![copied] = DeepCopy(heap[init_dialogs])],
                             {init_dialogs, copied})
          /\ out_f' = Append(out_f, InfoLine(threshold, train_size, test_size))
    /\ calls' = 0 /\ emitted' = 0
    /\ UNCHANGED <<queue_snd, init_dialogs, pc, retries, max_retries, error_msg, ret, sent, context, config, update_call>>

KnownKinds == {"INIT", "COMMAND", "EVOLUTION_UPDATE", "THRESHOLD_START"}

HandleUnknown ==
    /\ Polling
    /\ Head(queue_recv).type \notin KnownKinds \cup {"BYTES"}
    /\ queue_recv' = Tail(queue_recv)
    /\ msg' = Head(queue_recv)
    /\ calls' = 0 /\ emitted' = 0
    /\ UNCHANGED <<queue_snd, heap, init_dialogs, dialogs, out_f, pc,
                   retries, max_retries, error_msg, ret, sent, context, config, update_call>>

\* ------------------------------------------------------------------ driver
\* The GP driver puts an envelope on queue_recv, at any time.
Send(e) ==
    /\ sent.all < MaxSent
    /\ e.type = "EVOLUTION_UPDATE" => sent.updates < MaxUpdates
    /\ queue_recv' = Append(queue_recv, e)
    /\ sent' = [all |-> sent.all + 1,
                updates |-> sent.updates + (IF e.type = "EVOLUTION_UPDATE" THEN 1 ELSE 0)]
    /\ UNCHANGED <<queue_snd, heap, init_dialogs, dialogs, out_f, pc, msg,
                   retries, max_retries, error_msg, ret, calls, emitted, context, config, update_call>>

\* ------------------------------------------------ SRConfig (src/src/config.py)
\* fields(DataConfig), fields(GPConfig), fields(PathConfig): the names
\* SRConfig.update collects; the fields LLMConfig and SRConfig declare
data_fields == {"tt_ratio", "search_scale", "labels", "opt_expr_list"}
gp_fields ==
    {"num_generations", "population_size", "max_tree_height", "select_tour_size",
     "hof_max_size", "crossover_prob", "mutation_prob", "generation_step"}
paths_fields == {"output_base_dir", "_output_dir", "_metric_save_path"}
llm_fields ==
    {"enable_llm", "interaction_interval", "max_retries", "top_k_individuals",
     "response_timeout"}
sr_fields == {"gp", "data", "paths", "llm", "task_settings", "is_rearrange_result", "debug"}

\* The read-only properties and the methods of SRConfig
Properties == {"output_dir", "metric_save_path", "temp_dir"}
Methods ==
    {"from_dict", "from_yaml", "validate", "update", "ensure_directories",
     "get_experiment_path", "get_metric_path"}

\* Attribute values: "default" is what construction left (for gp, data,
\* paths and llm of SRConfig the sub-configuration object itself, for a
\* method name the method); the values passed to update are strings
Default == "default"
NewValues == {"v1", "v2"}

\* SRConfig(): every object with the attributes its class gives it
DefaultConfig ==
    [data |-> [f \in data_fields |-> Default],
     gp |-> [f \in gp_fields |-> Default],
     paths |-> [f \in paths_fields |-> Default],
     llm |-> [f \in llm_fields |-> Default],
     self |-> [a \in sr_fields \cup Methods |-> Default]]

NoCall == [n |-> 0, key |-> "", value |-> "", raised |-> ""]

\* The keyword arguments update is called with: every declared field, a
\* property, two methods (update itself among them) and a name declared
\* nowhere
Keys ==
    data_fields \cup gp_fields \cup paths_fields \cup llm_fields \cup sr_fields
        \cup {"output_dir", "validate", "update", "verbose"}

\* hasattr(self, key): an attribute of the instance or of the class. For a
\* property the getter is run, and it raises AttributeError (hasattr is
\* False) once self.paths has been rebound to a plain value.
hasattr(c, key) ==
    \/ key \in DOMAIN c.self
    \/ key \in Properties /\ c.self["paths"] = Default

Done(c) == [config |-> c, raised |-> ""]
Raised(c, e) == [config |-> c, raised |-> e]

\* setattr(self.<obj>, key, value); self.<obj> is the sub-configuration
\* unless an earlier update rebound it to a plain value
SetOnSub(c, obj, key, value) ==
    IF c.self[obj] = Default
    THEN Done([c EXCEPT ![obj][key] = value])
    ELSE Raised(c, "AttributeError")

\* setattr(self, key, value): a property without setter refuses
SetOnSelf(c, key, value) ==
    IF key \in Properties THEN Raised(c, "AttributeError")
    ELSE Done([c EXCEPT !.self[key] = value])

\* One pass of the loop of SRConfig.update, for the item key=value
update(c, key, value) ==
    IF key \in data_fields THEN SetOnSub(c, "data", key, value)
    ELSE IF key \in gp_fields THEN SetOnSub(c, "gp", key, value)
    ELSE IF key \in paths_fields THEN SetOnSub(c, "paths", key, value)
    ELSE IF hasattr(c, key) THEN SetOnSelf(c, key, value)
    ELSE Raised(c, "ConfigError")

\* config.update(key=value): the attribute lookup finds the method, unless
\* an earlier update stored a plain value under the name 'update', and
\* calling that raises TypeError
Call(c, key, value) ==
    IF c.self["update"] = Default THEN update(c, key, value) ELSE Raised(c, "TypeError")

Update(key, value) ==
    /\ update_call.n < MaxConfigUpdates
    /\ config' = Call(config, key, value).config
    /\ update_call' = [n |-> update_call.n + 1, key |-> key, value |-> value,
                       raised |-> Call(config, key, value).raised]
    /\ UNCHANGED <<queue_recv, queue_snd, heap, init_dialogs, dialogs, out_f, pc, msg,
                   retries, max_retries, error_msg, ret, calls, emitted, sent, context>>

\* ------------------------------------------------------------ specifications
\* llama_main after `init_dialogs = []` and `dialogs = []`
Init ==
    /\ queue_recv = <<>>
    /\ queue_snd = <<>>
    /\ heap = [r \in Refs |-> <<>>]
    /\ init_dialogs = 1
    /\ dialogs = 2
    /\ out_f = <<>>
    /\ pc = "poll"
    /\ msg = NoMsg
    /\ retries = 0
    /\ max_retries = DefaultMaxRetries
    /\ error_msg = NoError
    /\ ret = "None"
    /\ calls = 0
    /\ emitted = 0
    /\ sent = [all |-> 0, updates |-> 0]
    /\ context = <<>>
    /\ config = DefaultConfig
    /\ update_call = NoCall

Next ==
    \/ PollTimeout
    \/ DecodeFail
    \/ HandleInit
    \/ HandleCommand
    \/ HandleEvolutionUpdate
    \/ HandleThresholdStart
    \/ HandleUnknown
    \/ LoopHead
    \/ \E o \in WorkerOutcomes : Respond(o)
    \/ \E e \in Inbound : Send(e)

Spec == Init /\ [][Next]_vars

\* process_llm_response called directly on a dialog list, with any budget
DirectDialogs ==
    {<<>>,
     <<Turn("user", RoundPrompt([EmptyPayload EXCEPT !.keys = {"top_individuals"}]))>>,
     <<Turn("system", create_system_prompt(<<"x0">>, <<"gt">>)),
       Turn("user", RoundPrompt([EmptyPayload EXCEPT !.keys = {"top_individuals"}]))>>}

InitRetry ==
    /\ queue_recv = <<>>
    /\ queue_snd = <<>>
    /\ init_dialogs = 1
    /\ dialogs = 2
    /\ \E ds \in DirectDialogs : heap = [r \in Refs |-> IF r = 2 THEN ds ELSE <<>>]
    /\ out_f = <<>>
    /\ pc = "loop"
    /\ msg = NoMsg
    /\ retries = 0
    /\ max_retries \in 0..MaxBudget
    /\ error_msg = NoError
    /\ ret = "None"
    /\ calls = 0
    /\ emitted = 0
    /\ sent = [all |-> 0, updates |-> 0]
    /\ context = <<>>
    /\ config = DefaultConfig
    /\ update_call = NoCall

NextRetry ==
    \/ LoopHead
    \/ \E o \in BackendOutcomes : Respond(o)

SpecRetry == InitRetry /\ [][NextRetry]_vars

\* SRConfig.update called on a freshly constructed configuration
NextConfig == \E key \in Keys, value \in NewValues : Update(key, value)

SpecConfig == Init /\ [][NextConfig]_vars

\* process_llm_response called directly, under a backend whose every
\* invocation returns, with a text or with an error: the sequential code
\* takes the loop test whenever it is at it, and an outstanding invocation
\* ends.
SpecRetryFair ==
    /\ SpecRetry
    /\ WF_vars(LoopHead)
    /\ WF_vars(\E o \in BackendOutcomes : Respond(o))

TypeOK ==
    /\ pc \in {"poll", "loop", "await", "done", "crashed", "returned"}
    /\ init_dialogs \in Refs /\ dialogs \in Refs
    /\ retries \in 0..(MaxBudget + 1)
    /\ ret \in {"None", "True", "False"}
    /\ context # <<>> => pc = "await"

\* ==================================================================== claims
IsPrefix(p, q) == Len(p) <= Len(q) /\ SubSeq(q, 1, Len(p)) = p
Last(q) == q[Len(q)]
\* The payload a response text denotes: its JSON reading when it is JSON,
\* otherwise its reading as a Python literal
ParsesTo(t) == IF t.syntax = "json" THEN t.value ELSE t.literal
\* The error messages of attempts whose backend call raised
CallErrors == {E_call(x) : x \in ExceptionClasses}
InRetry == pc \in {"loop", "await"}
\* Between the attempts of process_llm_response, or after its return, with
\* nothing else handled since
BetweenAttempts == pc \in {"loop", "poll", "returned"} /\ msg.type \in {"EVOLUTION_UPDATE", "NONE"}
AfterReturn == pc \in {"poll", "returned"} /\ msg.type \in {"EVOLUTION_UPDATE", "NONE"}

\* Steps of llama_main that take an envelope of a given kind off queue_recv
Takes(kind) ==
    /\ pc = "poll"
    /\ queue_recv # <<>>
    /\ Head(queue_recv).type = kind
    /\ queue_recv' = Tail(queue_recv)

\* C1: once the worker is done with an EVOLUTION_UPDATE (it is no longer in
\* the retry loop and the update is the envelope it decoded last), exactly
\* one envelope has been put on the outgoing channel for it, a SUGGESTION or
\* an ERROR.
C1_OneReply ==
    (msg.type = "EVOLUTION_UPDATE" /\ ~InRetry) =>
        /\ emitted = 1
        /\ queue_snd # <<>>
        /\ Last(queue_snd).type \in {"SUGGESTION", "ERROR"}

\* C2: the live history is empty before any INIT, or begins with the turns
\* of the current system-prompt prefix.
C2_TurnsBeginWithPrefix ==
    \/ initPrefix = <<>> /\ turns = <<>>
    \/ IsPrefix(initPrefix, turns)

\* C3: a THRESHOLD_START step leaves turns equal to initPrefix; an INIT step
\* sets initPrefix to the system prompt built from its payload; no other step
\* (appends to turns included) changes initPrefix.
C3_ResetCopiesPrefix ==
    [][/\ Takes("THRESHOLD_START") => (turns' = initPrefix' /\ initPrefix' = initPrefix)
       /\ Takes("INIT") =>
            initPrefix' = <<Turn("system",
                                 create_system_prompt(Head(queue_recv).payload.labels,
                                                      Head(queue_recv).payload.operators))>>
       /\ ~Takes("INIT") => initPrefix' = initPrefix]_vars

\* An epoch was started after an INIT and the history has grown past the prefix.
C3_Witness ==
    /\ Len(initPrefix) = 1
    /\ Len(turns) > 1
    /\ IsPrefix(initPrefix, turns)
    /\ \E i \in 1..Len(out_f) : out_f[i].kind = "info"

\* Writes of output.txt that hold a turn
IsTurnLine(w) == w.kind = "turn"
TurnLines == SelectSeq(out_f, IsTurnLine)

\* C4: once COMMAND("exit") has been processed, output.txt holds one block
\* per turn of turns, in the order of turns, each block followed by a
\* separator; and from then on the worker does nothing: it takes no envelope
\* off queue_recv, turns and output.txt stay as they are, nothing is emitted.
C4_ExitFlushesAndStops ==
    /\ [](pc = "done" =>
            /\ Len(TurnLines) = Len(turns)
            /\ \A i \in 1..Len(turns) :
                  /\ TurnLines[i].role = Capitalize(turns[i].role)
                  /\ TurnLines[i].content = turns[i].content
            /\ \A i \in 1..Len(out_f) :
                  out_f[i].kind = "turn" =>
                      i < Len(out_f) /\ out_f[i + 1].kind = "separator")
    /\ [][pc = "done" =>
            /\ pc' = "done"
            /\ IsPrefix(queue_recv, queue_recv')
            /\ heap' = heap /\ dialogs' = dialogs
            /\ queue_snd' = queue_snd
            /\ out_f' = out_f]_vars

\* The worker exited with several turns of different roles in the history
\* and an envelope still waiting behind the exit command.
C4_Witness ==
    /\ pc = "done"
    /\ Len(turns) >= 3
    /\ turns[1].role = "user"
    /\ turns[2].role = "assistant"
    /\ queue_recv # <<>>

\* C5: when process_llm_response has returned after max_retries >= 1 failed
\* attempts, it made exactly max_retries model invocations and put exactly
\* one envelope on queue_snd, an ERROR whose retries field is max_retries.
C5_ExhaustedBudget ==
    (pc = "returned" /\ max_retries >= 1 /\ retries = max_retries) =>
        /\ calls = max_retries
        /\ Len(queue_snd) = 1
        /\ queue_snd[1].type = "ERROR"
        /\ queue_snd[1].retries = max_retries
        /\ ret = "False"

\* Three attempts failed validation (none by an invocation error) under a budget of 3.
C5_Witness ==
    /\ pc = "returned"
    /\ max_retries = 3
    /\ retries = 3
    /\ Len(turns) >= 5
    /\ Last(turns).role = "assistant"

\* C6: a step in which a returned response fails validation while attempts
\* remain extends turns by exactly two turns: the assistant turn holding the
\* (stripped) response, then a user feedback turn holding the canonical
\* schema and the error of that response.
C6_FailedAttemptAddsTwo ==
    [][(pc = "await" /\ pc' = "loop" /\ error_msg' \notin CallErrors) =>
          /\ Len(turns') = Len(turns) + 2
          /\ IsPrefix(turns, turns')
          /\ \E t \in Texts :
                /\ ~Validate(Strip(t)).ok
                /\ turns'[Len(turns) + 1] = AssistantTurn(Strip(t))
                /\ turns'[Len(turns) + 2].role = "user"
                /\ turns'[Len(turns) + 2].content.kind = "ERROR_FEEDBACK"
                /\ turns'[Len(turns) + 2].content.format = resp_format
                /\ turns'[Len(turns) + 2].content.error = Validate(Strip(t)).error
                /\ error_msg' = Validate(Strip(t)).error]_vars

\* A response failed the schema check with attempts left: the history ends
\* with that response and the feedback that names the missing field.
C6_Witness ==
    /\ pc = "loop"
    /\ retries >= 1
    /\ Len(turns) >= 3
    /\ Last(turns).content.kind = "ERROR_FEEDBACK"
    /\ Last(turns).content.error = E_fields
    /\ turns[Len(turns) - 1] = AssistantTurn(T_no_reason)

\* The number of assistant turns in a list of turns
RECURSIVE AssistantTurns(_)
AssistantTurns(ts) ==
    IF ts = <<>> THEN 0
    ELSE (IF Head(ts).role = "assistant" THEN 1 ELSE 0) + AssistantTurns(Tail(ts))

\* The turns appended since the round prompt of the update being handled
RECURSIVE SincePrompt(_)
SincePrompt(ts) ==
    IF ts = <<>> THEN <<>>
    ELSE IF Last(ts).content.kind \in {"FIRST_ROUND", "SUBSEQUENT_ROUND"} THEN <<>>
    ELSE Append(SincePrompt(SubSeq(ts, 1, Len(ts) - 1)), Last(ts))

\* C7, as claimed: between attempts and after the last one, the assistant
\* turns appended since the round prompt number as many as the attempts made.
C7_AssistantPerAttempt ==
    BetweenAttempts => AssistantTurns(SincePrompt(turns)) = calls

\* C7, amended: an attempt whose invocation returned a response appends
\* exactly one assistant turn, whether the response then passes or fails
\* validation; an attempt whose invocation raised appends none; and no step
\* outside an attempt adds an assistant turn.
C7_AssistantPerResponse ==
    [][IF pc = "await" /\ pc' # "await"
       THEN AssistantTurns(turns') = AssistantTurns(turns) +
                (IF retries' = retries + 1 /\ error_msg' \in CallErrors THEN 0 ELSE 1)
       ELSE AssistantTurns(turns') <= AssistantTurns(turns)]_vars

\* Two attempts of one update were made; one invocation raised, the other
\* returned a response.
C7_Witness ==
    /\ BetweenAttempts
    /\ calls = 2
    /\ AssistantTurns(SincePrompt(turns)) = 1

\* C8: the step that puts a SUGGESTION leaves the retry loop, and once
\* process_llm_response has returned True, the last turn of
\* turns is the accepted response, the one envelope emitted for the update is
\* the SUGGESTION carrying the whole payload that response parses to, and the
\* invocations made are the failed attempts plus the accepted one.
C8_SuccessEndsLoop ==
    /\ [][(Len(queue_snd') = Len(queue_snd) + 1 /\ Last(queue_snd').type = "SUGGESTION") =>
              pc' \notin {"loop", "await"}]_vars
    /\ []((AfterReturn /\ ret = "True") =>
              /\ Last(turns).role = "assistant"
              /\ Validate(Last(turns).content.text).ok
              /\ emitted = 1
              /\ Last(queue_snd) = SuggestionMsg(ParsesTo(Last(turns).content.text))
              /\ calls = retries + 1)

\* A response was accepted on the third attempt, after two failed ones.
C8_Witness ==
    /\ AfterReturn
    /\ ret = "True"
    /\ retries = 2
    /\ queue_snd = <<SuggestionMsg(FullBatch)>>

\* C9: the step that puts an ERROR appends no feedback turn (turns gains at
\* most the assistant turn of that attempt), and the ERROR carries the error
\* message of that attempt and the number of attempts made.
C9_ErrorCarriesLastMessage ==
    [][(Len(queue_snd') = Len(queue_snd) + 1 /\ Last(queue_snd').type = "ERROR") =>
          /\ pc = "await"
          /\ \/ turns' = turns /\ Last(queue_snd').error \in CallErrors
             \/ /\ Len(turns') = Len(turns) + 1
                /\ IsPrefix(turns, turns')
                /\ Last(turns').role = "assistant"
                /\ ~Validate(Last(turns').content.text).ok
                /\ Last(queue_snd').error = Validate(Last(turns').content.text).error
          /\ Last(queue_snd').retries = calls]_vars

\* The budget was exhausted by a parse failure after an attempt that failed
\* with a different message.
C9_Witness ==
    /\ AfterReturn
    /\ ret = "False"
    /\ Last(queue_snd).error = E_parse(T_garbage.why)
    /\ \E i \in 1..Len(turns) :
          turns[i].content.kind = "ERROR_FEEDBACK" /\ turns[i].content.error = E_fields

\* C10: while the retry loop runs, no envelope leaves queue_recv and msg
\* stays the update; invocations are made one at a time (one more started
\* than finished exactly while one is outstanding); and the worker
\* terminates only from the poll, where the update handled before has its
\* reply on queue_snd.
C10_OneEnvelopeAtATime ==
    /\ [][InRetry => (IsPrefix(queue_recv, queue_recv') /\ msg' = msg)]_vars
    /\ [](InRetry =>
            /\ msg.type = "EVOLUTION_UPDATE" \/ msg = NoMsg
            /\ emitted = 0
            /\ calls = (IF pc = "await" THEN retries + 1 ELSE retries))
    /\ [][(pc # "done" /\ pc' = "done") =>
            /\ pc = "poll"
            /\ msg.type = "EVOLUTION_UPDATE" =>
                  (emitted = 1 /\ Last(queue_snd).type \in {"SUGGESTION", "ERROR"})]_vars

\* A model invocation is outstanding while the exit command waits in the queue.
C10_Witness ==
    /\ pc = "await"
    /\ queue_recv # <<>>
    /\ Head(queue_recv).type = "COMMAND"
    /\ Head(queue_recv).payload.command = "exit"

\* C11: the worker leaves its loop only by processing COMMAND("exit"): no
\* envelope makes it stop or raise, and after an update whose retry budget
\* was exhausted (its ERROR has been put) the worker is polling again.
C11_OnlyExitStops ==
    /\ [][(pc \notin {"done", "crashed"} /\ pc' \in {"done", "crashed"}) =>
            /\ Takes("COMMAND")
            /\ Head(queue_recv).payload.command = "exit"
            /\ pc' = "done"]_vars
    /\ []((msg.type = "EVOLUTION_UPDATE" /\ emitted = 1 /\ Last(queue_snd).type = "ERROR")
            => pc = "poll")

\* C12: every SUGGESTION on the outgoing channel carries a payload that has
\* the key 'suggestions', each element of which is a suggestion with the
\* fields 'expression' and 'reason'; a response violating this is a failed
\* attempt and is never emitted.
C12_SuggestionElementsComplete ==
    \A i \in 1..Len(queue_snd) :
        queue_snd[i].type = "SUGGESTION" =>
            /\ "suggestions" \in queue_snd[i].payload.keys
            /\ \A j \in 1..Len(queue_snd[i].payload.suggestions) :
                  /\ queue_snd[i].payload.suggestions[j].tag = "dict"
                  /\ {"expression", "reason"} \subseteq queue_snd[i].payload.suggestions[j].keys

\* C13: every SUGGESTION on the outgoing channel carries a payload with the
\* keys 'suggestions', 'anomaly_score' and, at top level, 'reason'.
C13_SuggestionTopLevelComplete ==
    \A i \in 1..Len(queue_snd) :
        queue_snd[i].type = "SUGGESTION" =>
            {"suggestions", "anomaly_score", "reason"} \subseteq queue_snd[i].payload.keys

\* The step of llama_main that processes COMMAND("exit")
TakesExit == Takes("COMMAND") /\ Head(queue_recv).payload.command = "exit"

\* C14: the transcript is written once, at terminate time: no step other
\* than the processing of COMMAND("exit") writes to output.txt, and after
\* exit output.txt consists of exactly one block per turn of turns (role
\* label and content, then a separator), in arrival order.
C14_WrittenOnceAtExit ==
    /\ [][~TakesExit => out_f' = out_f]_vars
    /\ [](pc = "done" =>
            /\ Len(out_f) = 2 * Len(turns)
            /\ \A i \in 1..Len(turns) :
                  /\ out_f[2 * i - 1] = TurnLine(turns[i])
                  /\ out_f[2 * i] = SeparatorLine)

\* C14 (amended): the turn blocks are written only at terminate time. A
\* THRESHOLD_START step appends one epoch line to output.txt, the exit step
\* appends the closing line followed by one block per turn of turns, in
\* order, and no other step writes; so after exit output.txt is the epoch
\* lines of the epochs started, the closing line, then one block per turn.
C14_TranscriptAtExit ==
    /\ [][IF Takes("THRESHOLD_START")
          THEN /\ Len(out_f') = Len(out_f) + 1
               /\ SubSeq(out_f', 1, Len(out_f)) = out_f
               /\ Last(out_f').kind = "info"
          ELSE IF TakesExit
          THEN /\ Len(out_f') = Len(out_f) + 1 + 2 * Len(turns)
               /\ SubSeq(out_f', 1, Len(out_f)) = out_f
          ELSE out_f' = out_f]_vars
    /\ [](pc = "done" =>
            LET k == Len(out_f) - 2 * Len(turns) - 1
            IN /\ k >= 0
               /\ \A j \in 1..k : out_f[j].kind = "info"
               /\ out_f[k + 1] = EndedLine
               /\ \A i \in 1..Len(turns) :
                     /\ out_f[k + 2 * i] = TurnLine(turns[i])
                     /\ out_f[k + 2 * i + 1] = SeparatorLine)

\* The worker has exited after an epoch was started and an update answered.
C14_Witness ==
    /\ pc = "done"
    /\ out_f[1].kind = "info"
    /\ Len(turns) >= 2
    /\ Last(turns).role = "assistant"

\* C15: turns is append-only within an epoch: every step other than the
\* processing of a THRESHOLD_START leaves the turns it found as a prefix of
\* the turns it leaves.
C15_TurnsAppendOnly ==
    [][~Takes("THRESHOLD_START") => IsPrefix(turns, turns')]_vars

\* An INIT was processed and an update answered, with no epoch started: the
\* history holds the round prompt and the response, in that order.
C15_Witness ==
    /\ initPrefix # <<>>
    /\ Len(turns) >= 2
    /\ turns[1].role = "user"
    /\ turns[2].role = "assistant"
    /\ \A i \in 1..Len(out_f) : out_f[i].kind # "info"

\* A step of the worker (not of the driver) taken at the poll with an
\* undecodable envelope at the head of queue_recv
DecodeFailureStep ==
    /\ pc = "poll"
    /\ queue_recv # <<>>
    /\ Head(queue_recv).type = "BYTES"
    /\ sent' = sent

\* C16: a poll that times out and the receipt of an undecodable envelope
\* leave initPrefix, turns and the outgoing channel as they were and invoke
\* no model, and the worker is polling afterwards; the undecodable envelope
\* is taken off queue_recv, so it is never processed again.
C16_TimeoutAndDecodeFailure ==
    /\ [][(pc = "poll" /\ queue_recv = <<>>) =>
            /\ initPrefix' = initPrefix /\ turns' = turns /\ queue_snd' = queue_snd
            /\ calls' = calls /\ out_f' = out_f
            /\ pc' = "poll"]_vars
    /\ [][DecodeFailureStep =>
            /\ queue_recv' = Tail(queue_recv)
            /\ initPrefix' = initPrefix /\ turns' = turns /\ queue_snd' = queue_snd
            /\ calls' = calls /\ out_f' = out_f /\ msg' = msg
            /\ pc' = "poll"]_vars

\* Two envelopes were sent and taken off queue_recv and none was decoded:
\* both were undecodable and both were dropped.
C16_Witness ==
    /\ pc = "poll"
    /\ queue_recv = <<>>
    /\ sent.all = 2
    /\ msg = NoMsg
    /\ turns = <<>>
    /\ queue_snd = <<>>

\* A step of the worker taken at the poll with, at the head of queue_recv, a
\* COMMAND whose command is not "exit" (or is missing) or a decodable
\* envelope of a kind llama_main has no branch for
IgnoredEnvelopeStep ==
    /\ pc = "poll"
    /\ queue_recv # <<>>
    /\ sent' = sent
    /\ \/ /\ Head(queue_recv).type = "COMMAND"
          /\ "command" \notin Head(queue_recv).payload.keys
                \/ Head(queue_recv).payload.command # "exit"
       \/ Head(queue_recv).type \notin {"INIT", "COMMAND", "EVOLUTION_UPDATE",
                                        "THRESHOLD_START", "BYTES"}

\* C17: a COMMAND whose command is not "exit" (a missing command included)
\* and an envelope of any other kind are consumed and leave initPrefix,
\* turns, the outgoing channel and output.txt as they were; no model is
\* invoked and the worker does not terminate: it polls again.
C17_IgnoredEnvelopes ==
    [][IgnoredEnvelopeStep =>
          /\ queue_recv' = Tail(queue_recv)
          /\ initPrefix' = initPrefix /\ turns' = turns /\ queue_snd' = queue_snd
          /\ out_f' = out_f
          /\ calls' = 0
          /\ pc' = "poll"]_vars

\* After an update was answered, a COMMAND without a command was processed
\* and the worker polls on with the history it had.
C17_Witness ==
    /\ pc = "poll"
    /\ msg.type = "COMMAND"
    /\ "command" \notin msg.payload.keys
    /\ Len(turns) >= 2
    /\ queue_snd # <<>>

\* The schema check as the code makes it: the key 'suggestions' is present
\* and 'expression' and 'reason' are found in every element
PassesSchemaCheck(p) ==
    /\ "suggestions" \in p.keys
    /\ \A j \in 1..Len(p.suggestions) : {"expression", "reason"} \subseteq p.suggestions[j].keys

\* A step in which the backend's response is recorded and validated
ResponseStep ==
    /\ pc = "await"
    /\ pc' # "await"
    /\ Len(turns') > Len(turns)
    /\ turns'[Len(turns) + 1].role = "assistant"

\* C18: the strict parser is tried first and the permissive one only when
\* the strict one fails: a text the strict parser accepts yields the strict
\* parser's payload, a text only the permissive parser accepts yields the
\* permissive parser's payload, and in both cases the same schema check
\* decides between a SUGGESTION carrying that payload and a failed attempt;
\* a text both parsers reject is one failed attempt, whose error message
\* carries the message of the permissive parser's exception.
C18_StrictThenPermissive ==
    [][ResponseStep =>
          LET t == turns'[Len(turns) + 1].content.text
              NoSuggestionPut ==
                  \/ queue_snd' = queue_snd
                  \/ queue_snd' = Append(queue_snd, ErrorMsg(error_msg', retries'))
              Decided(p) ==
                  IF PassesSchemaCheck(p)
                  THEN /\ queue_snd' = Append(queue_snd, SuggestionMsg(p))
                       /\ retries' = retries
                  ELSE /\ retries' = retries + 1
                       /\ error_msg' \in {E_no_suggestions, E_fields}
                       /\ NoSuggestionPut
          IN CASE t.syntax = "json" -> Decided(t.value)
               [] t.syntax = "pyliteral" -> Decided(t.literal)
               [] OTHER -> /\ retries' = retries + 1
                           /\ error_msg'.message \in {"Cannot parse response format", t.why}
                           /\ t.why \in {error_msg'.message, error_msg'.detail}
                           /\ NoSuggestionPut]_vars

\* After a response neither parser accepted, a JSON text that the two
\* parsers read differently was accepted: the SUGGESTION carries the strict
\* parser's payload.
C18_Witness ==
    /\ AfterReturn
    /\ ret = "True"
    /\ retries = 1
    /\ error_msg = E_parse(T_garbage.why)
    /\ Last(turns).content.text = Strip(T_escaped)
    /\ T_escaped.value # T_escaped.literal
    /\ Last(queue_snd) = SuggestionMsg(T_escaped.value)

\* C19: one run of the retry loop (the handling of one EVOLUTION_UPDATE)
\* makes at most max_retries model invocations, and when every invocation
\* returns (with a text or with an error) the loop ends and control is back
\* with the caller, which for the worker is its poll.
C19_RetryLoopTerminates ==
    /\ [](calls <= max_retries)
    /\ InRetry ~> (pc = ReturnTo)

\* The budget was used up: as many invocations as max_retries were made, all
\* failed, and the loop has been left.
C19_Witness ==
    /\ AfterReturn
    /\ ret = "False"
    /\ max_retries = 3
    /\ calls = max_retries
    /\ retries = max_retries

\* C20: for every value of max_retries, 0 included, process_llm_response has
\* put exactly one envelope on the outgoing channel when it returns, and
\* when the budget is exhausted (also when it is so from the start) that
\* envelope is an ERROR.
C20_OneEnvelopeForEveryBudget ==
    pc = "returned" =>
        /\ emitted = 1
        /\ Len(queue_snd) = 1
        /\ retries >= max_retries => queue_snd[1].type = "ERROR"

\* C21: while a model invocation is outstanding, the context it was handed
\* is the whole of turns, it is not empty, and its last turn is a user turn:
\* the round prompt of the update on the first attempt, the feedback on the
\* error of the previous attempt on every later attempt.
C21_ContextIsWholeHistory ==
    pc = "await" =>
        /\ context = turns
        /\ context # <<>>
        /\ Last(context).role = "user"
        /\ Last(context).content =
              (IF retries = 0 THEN RoundPrompt(msg.payload) ELSE ErrorFeedback(error_msg))

\* The third attempt of an update is outstanding: the context holds the
\* round prompt, what the two failed attempts added, and ends with feedback.
C21_Witness ==
    /\ pc = "await"
    /\ retries = 2
    /\ Len(context) >= 4
    /\ context[1].content.kind # "ERROR_FEEDBACK"
    /\ Last(context).content.kind = "ERROR_FEEDBACK"
    /\ \E i \in 1..Len(context) : context[i].role = "assistant"

\* C22: the turn blocks of the transcript are written by the exit step and
\* are the blocks of the turns live at that moment, one each, in order. A
\* THRESHOLD_START step leaves in turns nothing but the copy of initPrefix,
\* so a turn appended before the most recent one is not among them, and
\* every turn appended since is.
C22_TranscriptIsLiveHistory ==
    /\ [][Takes("THRESHOLD_START") => turns' = initPrefix]_vars
    /\ [](pc # "done" => TurnLines = <<>>)
    /\ [][TakesExit =>
            /\ turns' = turns
            /\ SelectSeq(out_f', IsTurnLine) = [i \in 1..Len(turns) |-> TurnLine(turns[i])]]_vars

\* An update was answered, then an epoch was started, then the worker
\* exited: the reply is on the outgoing channel, yet the transcript holds no
\* turn, the update's turns having been discarded by the reset.
C22_Witness ==
    /\ pc = "done"
    /\ queue_snd # <<>>
    /\ turns = <<>>
    /\ TurnLines = <<>>
    /\ \E i \in 1..Len(out_f) : out_f[i].kind = "info"

\* The fields each configuration object declares
Declares ==
    [data |-> data_fields, gp |-> gp_fields, paths |-> paths_fields,
     llm |-> llm_fields, self |-> sr_fields]

\* C23: after update(key=value) on a freshly constructed configuration, for
\* every object that declares a field named key (DataConfig, GPConfig,
\* PathConfig, LLMConfig or SRConfig itself) that field of that object holds
\* value and nothing was raised; ConfigError is raised only for a key that
\* none of them declares.
C23_UpdateRoutesEveryField ==
    update_call.n = 1 =>
        /\ \A obj \in DOMAIN Declares :
              update_call.key \in Declares[obj] =>
                  /\ update_call.raised = ""
                  /\ config[obj][update_call.key] = update_call.value
        /\ update_call.raised = "ConfigError" =>
              \A obj \in DOMAIN Declares : update_call.key \notin Declares[obj]

====
